---------------------------- MODULE Spec2Model ----------------------------
(***************************************************************************)
(* A model of the RESP key-value server: the RESP codec (resp.go), the     *)
(* command handlers and the in-memory store (handler.go, kept here as      *)
(* src/unnamed/part_000), the append-only file (aof.go) and the request    *)
(* loop and replay callback of main (main.go).                             *)
(*                                                                         *)
(* A byte is a one-character string; a Go string or []byte is a sequence   *)
(* of bytes.  A Go map is a function whose DOMAIN is the set of its keys.  *)
(***************************************************************************)
EXTENDS Integers, Sequences, FiniteSets, TLC

VARIABLES
    SETs,     \* handler.go: the SETs map
    HSETs,    \* handler.go: the HSETs map
    aofFile,  \* the bytes of database.aof
    value,    \* main: the request parsed last
    reply,    \* main: the Values written to the connection for it
    phase,    \* "serving", "exited", "crashed", or "replayed" after a restart
    appends,  \* history: the number of Aof.Write calls
    wfail,    \* history: whether an Aof.Write has failed
    mruSET,   \* history: key -> value of the latest SET with two arguments
    mruHSET,  \* history: <<hash, field>> -> value of the latest HSET with three
    cpc,      \* codec run: "off", "bytes", "value", "wire", "done", "rejected"
    csrc,     \* codec run: "parser" or "built", where cval comes from
    cin,      \* codec run: the input bytes
    cval,     \* codec run: the Value under test
    cout,     \* codec run: Marshal of cval
    cback,    \* codec run: the result of parsing cout, or of a rejected parse
    sock,     \* connection: the bytes that have arrived and main has not taken
    starts,   \* connection history: the stream offset of each request sent
    taken,    \* connection history: the number of bytes main has taken
    shut,     \* connection: whether the client has closed it
    lpc,      \* connection: main's place in the loop, "off" when not modelled
    cur,      \* connection: the Value main parsed and the request it is
    handled,  \* connection history: what main has parsed, in order
    out,      \* connection: the responses main has written, in order
    mu,       \* locks: for each mutex, the <<task, "w" or "r">> that hold it
    acq,      \* locks history: for each mutex, the task that took Lock last
    rpc,      \* race: the place of each of two tasks in its SET
    rreq,     \* race: the request of each of the two tasks
    mpc,      \* process: main's place, "off" when not modelled
    fpc,      \* process: the place of the goroutine NewAof starts
    rr,       \* process: the Resp of Aof.Read
    rerr,     \* process: what Aof.Read returned, "none" until it returns
    foff,     \* process: the offset of the open AOF file
    nserved,  \* process history: the number of requests main has read
    applied,  \* process history: the Values given to the replay callback
    syncErr   \* process: whether the last aof.file.Sync() gave an error

serverVars == <<SETs, HSETs, aofFile, value, reply, phase, appends, wfail, mruSET, mruHSET>>

codecVars == <<cpc, csrc, cin, cval, cout, cback>>

connVars == <<sock, starts, taken, shut, lpc, cur, handled, out>>

lockVars == <<mu, acq>>

raceVars == <<rpc, rreq>>

procVars == <<mpc, fpc, rr, rerr, foff, nserved, applied, syncErr>>

vars == <<serverVars, codecVars, connVars, lockVars, raceVars, procVars>>

\* The variables of the other machines, for each machine.
notServerVars == <<codecVars, connVars, lockVars, raceVars, procVars>>

notCodecVars == <<serverVars, connVars, lockVars, raceVars, procVars>>

notConnVars == <<codecVars, lockVars, raceVars, procVars>>

---------------------------------------------------------------------------
(* Bounds of the model.                                                    *)

\* Size of a bufio.Reader's buffer.  bufio.NewReader uses 4096 bytes; the
\* model scales it down so that a log of MaxLog records crosses it.
BufSize == 38

\* Number of records main may append to the AOF file.
MaxLog == 2

---------------------------------------------------------------------------
(* Bytes and strings.                                                      *)

CR == "\r"

LF == "\n"

\* The zero byte of a freshly made []byte.
NUL == "NUL"

Min(a, b) == IF a < b THEN a ELSE b

\* F on the value v: a local name for a value that is computed once.
Bind(v, F(_)) == F(v)

Digits == <<"0", "1", "2", "3", "4", "5", "6", "7", "8", "9">>

Lower == <<"a", "b", "c", "d", "e", "f", "g", "h", "i", "j", "k", "l", "m",
           "n", "o", "p", "q", "r", "s", "t", "u", "v", "w", "x", "y", "z">>

Upper == <<"A", "B", "C", "D", "E", "F", "G", "H", "I", "J", "K", "L", "M",
           "N", "O", "P", "Q", "R", "S", "T", "U", "V", "W", "X", "Y", "Z">>

\* The upper-case letter of each lower-case letter.
UpperOf == [b \in {Lower[i] : i \in 1..Len(Lower)} |->
               Upper[CHOOSE i \in 1..Len(Lower) : Lower[i] = b]]

\* strings.ToUpper on one byte.
UpperByte(b) == IF b \in DOMAIN UpperOf THEN UpperOf[b] ELSE b

\* strings.ToUpper.
ToUpper(s) == [i \in 1..Len(s) |-> UpperByte(s[i])]

\* strings.Contains.
Contains(s, sub) ==
    \E i \in 0..(Len(s) - Len(sub)) : SubSeq(s, i + 1, i + Len(sub)) = sub

RECURSIVE Itoa(_)
\* strconv.Itoa.
Itoa(n) ==
    IF n < 0 THEN <<"-">> \o Itoa(-n)
    ELSE IF n < 10 THEN <<Digits[n + 1]>>
    ELSE Itoa(n \div 10) \o <<Digits[(n % 10) + 1]>>

IsDigit(b) == \E i \in 1..10 : Digits[i] = b

DigitVal(b) == (CHOOSE i \in 1..10 : Digits[i] = b) - 1

RECURSIVE Atoi(_)
\* The value of a non-empty sequence of decimal digits.
Atoi(ds) ==
    IF Len(ds) = 1 THEN DigitVal(ds[1])
    ELSE 10 * Atoi(SubSeq(ds, 1, Len(ds) - 1)) + DigitVal(ds[Len(ds)])

\* strconv.ParseInt(s, 10, 64): an optional sign, then one or more digits.
ParseInt(s) ==
    LET signed == Len(s) > 0 /\ s[1] \in {"+", "-"}
        ds     == IF signed THEN SubSeq(s, 2, Len(s)) ELSE s
    IN  IF Len(ds) = 0 \/ \E i \in 1..Len(ds) : ~IsDigit(ds[i])
        THEN [x |-> 0, err |-> "syntax"]
        ELSE [x |-> IF signed /\ s[1] = "-" THEN -Atoi(ds) ELSE Atoi(ds),
              err |-> "nil"]

---------------------------------------------------------------------------
(* resp.go: Value and its serializer.                                      *)

\* The zero Value, Value{}.
ZeroValue == [typ |-> "", str |-> <<>>, num |-> 0, bulk |-> <<>>, array |-> <<>>]

StringValue(s) == [ZeroValue EXCEPT !.typ = "string", !.str = s]

ErrorValue(s) == [ZeroValue EXCEPT !.typ = "error", !.str = s]

BulkValue(b) == [ZeroValue EXCEPT !.typ = "bulk", !.bulk = b]

ArrayValue(a) == [ZeroValue EXCEPT !.typ = "array", !.array = a]

NullValue == [ZeroValue EXCEPT !.typ = "null"]

marshalString(v) == <<"+">> \o v.str \o <<CR, LF>>

\* A wrong marshalBulk: no CRLF after the payload.
marshalBulk_m(v) == <<"$">> \o Itoa(Len(v.bulk)) \o <<CR, LF>> \o v.bulk

marshalBulk(v) == <<"$">> \o Itoa(Len(v.bulk)) \o <<CR, LF>> \o v.bulk \o <<CR, LF>>

marshallError(v) == <<"-">> \o v.str \o <<CR, LF>>

marshallNull == <<"$", "-", "1", CR, LF>>

RECURSIVE Marshal(_)
RECURSIVE marshalElems(_, _)
\* The loop of marshalArray from element i on.
marshalElems(a, i) ==
    IF i > Len(a) THEN <<>> ELSE Marshal(a[i]) \o marshalElems(a, i + 1)

marshalArray(v) == <<"*">> \o Itoa(Len(v.array)) \o <<CR, LF>> \o marshalElems(v.array, 1)

Marshal(v) ==
    CASE v.typ = "array"  -> marshalArray(v)
      [] v.typ = "bulk"   -> marshalBulk(v)
      [] v.typ = "string" -> marshalString(v)
      [] v.typ = "null"   -> marshallNull
      [] v.typ = "error"  -> marshallError(v)
      [] OTHER            -> <<>>

---------------------------------------------------------------------------
(* resp.go: the parser, over a bufio.Reader.                               *)
(*                                                                         *)
(* A reader is [data, pos, w, eof]: data is everything the underlying      *)
(* io.Reader will deliver, pos the number of bytes consumed, data[pos+1..w]*)
(* the bytes held in the buffer, eof whether a read has met the end of     *)
(* data.  The underlying reader (a file, or a connection on which a whole  *)
(* request has arrived) fills as much of the buffer as it has bytes for.   *)

\* NewResp: bufio.NewReader over the source, nothing buffered.
NewResp(data) == [data |-> data, pos |-> 0, w |-> 0, eof |-> FALSE]

\* bufio.Reader.fill, called with an empty buffer: one Read of the source.
Fill(r) ==
    IF r.pos = r.w
    THEN [r EXCEPT !.w = Min(Len(r.data), r.pos + BufSize)]
    ELSE r

\* bufio.Reader.ReadByte.
ReadByte(r) ==
    Bind(Fill(r), LAMBDA f :
        IF f.w = f.pos
        THEN [r |-> [f EXCEPT !.eof = TRUE], b |-> NUL, err |-> "EOF"]
        ELSE [r |-> [f EXCEPT !.pos = @ + 1], b |-> f.data[f.pos + 1], err |-> "nil"])

\* bufio.Reader.Read(p) with len(p) = n: the bytes of at most one Read of
\* the source, so fewer than n when the buffer holds fewer.  got is the
\* bytes copied into p.
BufRead(r, n) ==
    IF n = 0 THEN [r |-> r, got |-> <<>>]
    ELSE IF r.pos = r.w /\ n >= BufSize
    THEN LET m == Min(n, Len(r.data) - r.pos)
         IN  [r |-> [r EXCEPT !.pos = @ + m, !.w = r.pos + m,
                               !.eof = @ \/ m = 0],
              got |-> SubSeq(r.data, r.pos + 1, r.pos + m)]
    ELSE Bind(Fill(r), LAMBDA f :
             LET m == Min(n, f.w - f.pos)
             IN  [r |-> [f EXCEPT !.pos = @ + m, !.eof = @ \/ m = 0],
                  got |-> SubSeq(f.data, f.pos + 1, f.pos + m)])

RECURSIVE readLineLoop(_, _)
\* The loop of readLine: the line ends once its last byte but one is CR.
readLineLoop(r, line) ==
    Bind(ReadByte(r), LAMBDA rb :
        LET l2 == Append(line, rb.b)
        IN  IF rb.err # "nil" THEN [r |-> rb.r, line |-> <<>>, err |-> rb.err]
            ELSE IF Len(l2) >= 2 /\ l2[Len(l2) - 1] = CR
            THEN [r |-> rb.r, line |-> SubSeq(l2, 1, Len(l2) - 2), err |-> "nil"]
            ELSE readLineLoop(rb.r, l2))

readLine(r) == readLineLoop(r, <<>>)

readInteger(r) ==
    Bind(readLine(r), LAMBDA l :
        IF l.err # "nil" THEN [r |-> l.r, x |-> 0, err |-> l.err]
        ELSE Bind(ParseInt(l.line), LAMBDA p : [r |-> l.r, x |-> p.x, err |-> p.err]))

\* make([]byte, len) filled by r.reader.Read(bulk): the bytes read, then
\* the zero bytes of the part Read did not fill.
ZeroPad(got, n) == got \o [i \in 1..(n - Len(got)) |-> NUL]

\* readBulk: the results of Read and of the closing readLine are dropped;
\* make panics on a negative length.
readBulk(r) ==
    LET v == [ZeroValue EXCEPT !.typ = "bulk"]
    IN  Bind(readInteger(r), LAMBDA n :
            IF n.err # "nil" THEN [r |-> n.r, val |-> v, err |-> n.err]
            ELSE IF n.x < 0 THEN [r |-> n.r, val |-> v, err |-> "panic"]
            ELSE Bind(BufRead(n.r, n.x), LAMBDA rd :
                     [r   |-> readLine(rd.r).r,
                      val |-> [v EXCEPT !.bulk = ZeroPad(rd.got, n.x)],
                      err |-> "nil"]))

RECURSIVE Read(_)
RECURSIVE readArrayLoop(_, _, _, _)
\* The loop of readArray, at element i of len.
readArrayLoop(r, v, i, len) ==
    IF i >= len THEN [r |-> r, val |-> v, err |-> "nil"]
    ELSE Bind(Read(r), LAMBDA e :
             IF e.err # "nil" THEN [r |-> e.r, val |-> v, err |-> e.err]
             ELSE readArrayLoop(e.r, [v EXCEPT !.array = Append(@, e.val)], i + 1, len))

readArray(r) ==
    LET v == [ZeroValue EXCEPT !.typ = "array"]
    IN  Bind(readInteger(r), LAMBDA n :
            IF n.err # "nil" THEN [r |-> n.r, val |-> v, err |-> n.err]
            ELSE readArrayLoop(n.r, v, 0, n.x))

\* Resp.Read: an unknown first byte gives Value{} and no error.
Read(r) ==
    Bind(ReadByte(r), LAMBDA t :
        IF t.err # "nil" THEN [r |-> t.r, val |-> ZeroValue, err |-> t.err]
        ELSE IF t.b = "*" THEN readArray(t.r)
        ELSE IF t.b = "$" THEN readBulk(t.r)
        ELSE [r |-> t.r, val |-> ZeroValue, err |-> "nil"])

---------------------------------------------------------------------------
(* handler.go: the store and the command handlers.  A handler takes the    *)
(* arguments and the store [SETs, HSETs] and gives its result Value and    *)
(* the store it leaves.                                                    *)

\* m[k] = v on a Go map.
MapPut(m, k, v) == [x \in (DOMAIN m) \cup {k} |-> IF x = k THEN v ELSE m[x]]

\* map[...]...{}
EmptyMap == [x \in {} |-> <<>>]

EmptyStore == [SETs |-> EmptyMap, HSETs |-> EmptyMap]

PING == <<"P", "I", "N", "G">>

SET == <<"S", "E", "T">>

GET == <<"G", "E", "T">>

HSET == <<"H", "S", "E", "T">>

HGET == <<"H", "G", "E", "T">>

PONG == <<"P", "O", "N", "G">>

OK == <<"O", "K">>

\* "ERR wrong number of arguments for '<cmd>' command"
ErrArity(cmd) ==
    <<"E", "R", "R", " ", "w", "r", "o", "n", "g", " ", "n", "u", "m", "b", "e", "r",
      " ", "o", "f", " ", "a", "r", "g", "u", "m", "e", "n", "t", "s", " ", "f", "o",
      "r", " ", "'">> \o cmd \o <<"'", " ", "c", "o", "m", "m", "a", "n", "d">>

\* A wrong ErrUnknown: the text without the name that was looked up.
ErrUnknown_m(command) ==
    <<"E", "R", "R", " ", "u", "n", "k", "n", "o", "w", "n", " ", "c", "o", "m", "m",
      "a", "n", "d">>

\* fmt.Sprintf("ERR unknown command '%s'", command)
ErrUnknown(command) ==
    <<"E", "R", "R", " ", "u", "n", "k", "n", "o", "w", "n", " ", "c", "o", "m", "m",
      "a", "n", "d", " ", "'">> \o command \o <<"'">>

ping(args, st) ==
    IF Len(args) = 0
    THEN [res |-> StringValue(PONG), st |-> st]
    ELSE [res |-> StringValue(args[1].bulk), st |-> st]

\* A wrong set: it stores the key under the value.
set_m(args, st) ==
    IF Len(args) # 2
    THEN [res |-> ErrorValue(ErrArity(<<"s", "e", "t">>)), st |-> st]
    ELSE [res |-> StringValue(OK),
          st  |-> [st EXCEPT !.SETs = MapPut(@, args[2].bulk, args[1].bulk)]]

set(args, st) ==
    IF Len(args) # 2
    THEN [res |-> ErrorValue(ErrArity(<<"s", "e", "t">>)), st |-> st]
    ELSE [res |-> StringValue(OK),
          st  |-> [st EXCEPT !.SETs = MapPut(@, args[1].bulk, args[2].bulk)]]

get(args, st) ==
    IF Len(args) # 1
    THEN [res |-> ErrorValue(ErrArity(<<"g", "e", "t">>)), st |-> st]
    ELSE IF args[1].bulk \notin DOMAIN st.SETs
    THEN [res |-> NullValue, st |-> st]
    ELSE [res |-> BulkValue(st.SETs[args[1].bulk]), st |-> st]

\* A wrong hset: one inner map for all the hashes, that of the field.
hset_m(args, st) ==
    IF Len(args) # 3
    THEN [res |-> ErrorValue(ErrArity(<<"h", "s", "e", "t">>)), st |-> st]
    ELSE LET hash  == args[2].bulk
             inner == IF hash \in DOMAIN st.HSETs THEN st.HSETs[hash] ELSE EmptyMap
         IN  [res |-> StringValue(OK),
              st  |-> [st EXCEPT !.HSETs =
                          MapPut(@, hash, MapPut(inner, args[1].bulk, args[3].bulk))]]

hset(args, st) ==
    IF Len(args) # 3
    THEN [res |-> ErrorValue(ErrArity(<<"h", "s", "e", "t">>)), st |-> st]
    ELSE LET hash  == args[1].bulk
             inner == IF hash \in DOMAIN st.HSETs THEN st.HSETs[hash] ELSE EmptyMap
         IN  [res |-> StringValue(OK),
              st  |-> [st EXCEPT !.HSETs =
                          MapPut(@, hash, MapPut(inner, args[2].bulk, args[3].bulk))]]

\* A wrong hget: it takes more than two arguments.
hget_m(args, st) ==
    IF Len(args) < 2
    THEN [res |-> ErrorValue(ErrArity(<<"h", "g", "e", "t">>)), st |-> st]
    ELSE IF \/ args[1].bulk \notin DOMAIN st.HSETs
            \/ args[2].bulk \notin DOMAIN st.HSETs[args[1].bulk]
    THEN [res |-> NullValue, st |-> st]
    ELSE [res |-> BulkValue(st.HSETs[args[1].bulk][args[2].bulk]), st |-> st]

hget(args, st) ==
    IF Len(args) # 2
    THEN [res |-> ErrorValue(ErrArity(<<"h", "g", "e", "t">>)), st |-> st]
    ELSE IF \/ args[1].bulk \notin DOMAIN st.HSETs
            \/ args[2].bulk \notin DOMAIN st.HSETs[args[1].bulk]
    THEN [res |-> NullValue, st |-> st]
    ELSE [res |-> BulkValue(st.HSETs[args[1].bulk][args[2].bulk]), st |-> st]

\* The keys of the Handlers map.
Handlers == {PING, SET, GET, HSET, HGET}

\* Handlers[command](args), for a command of the table.
CallHandler(command, args, st) ==
    CASE command = PING -> ping(args, st)
      [] command = SET  -> set(args, st)
      [] command = GET  -> get(args, st)
      [] command = HSET -> hset(args, st)
      [] command = HGET -> hget(args, st)

---------------------------------------------------------------------------
(* main.go: one pass of the request loop, and aof.go.                      *)

\* A wrong CommandOf: the name as the client wrote it.
CommandOf_m(v) == v.array[1].bulk

\* The command name main looks up: the first element's bulk, upper-cased.
CommandOf(v) == ToUpper(v.array[1].bulk)

\* value.array[1:]
ArgsOf(v) == Tail(v.array)

\* A wrong Durable: HSET is not appended.
Durable_m(command) == command = SET

\* The commands main appends to the AOF file.
Durable(command) == command = SET \/ command = HSET

\* Aof.Write when the file write succeeds.
AofWrite(file, v) == file \o Marshal(v)

\* The numbers of bytes a file write that fails may have written before it
\* failed: none, or a part of the record.
FailedWriteLens == {0, 4}

\* A wrong Aof.Write: after the failure it writes the record again.
AofWriteFailed_m(file, v, part) ==
    file \o SubSeq(Marshal(v), 1, Min(part, Len(Marshal(v)) - 1)) \o Marshal(v)

\* Aof.Write when the file write fails after part bytes: Write returns the
\* error, and the bytes written stay in the file.
AofWriteFailed(file, v, part) == file \o SubSeq(Marshal(v), 1, Min(part, Len(Marshal(v)) - 1))

\* The loop body of main from the parsed value on, given whether the file
\* write succeeds, and the bytes it wrote when it fails: the Values written
\* to the connection, the store and the file it leaves.
Serve(v, st, file, writeOk, part) ==
    IF v.typ # "array" \/ Len(v.array) = 0
    THEN [reply |-> <<>>, st |-> st, file |-> file]
    ELSE Bind(CommandOf(v), LAMBDA command :
             IF command \notin Handlers
             THEN [reply |-> <<ErrorValue(ErrUnknown(command))>>, st |-> st, file |-> file]
             ELSE Bind(CallHandler(command, ArgsOf(v), st), LAMBDA h :
                      [reply |-> <<h.res>>, st |-> h.st,
                       file  |-> IF ~Durable(command) THEN file
                                 ELSE IF writeOk THEN AofWrite(file, v)
                                 ELSE AofWriteFailed(file, v, part)]))

\* The callback main gives to Aof.Read: indexing array[0] of a Value with
\* no elements panics; an unknown command is skipped.
ReplayCallback(v, st) ==
    IF Len(v.array) = 0 THEN [st |-> st, err |-> "panic"]
    ELSE Bind(CommandOf(v), LAMBDA command :
             IF command \notin Handlers THEN [st |-> st, err |-> "nil"]
             ELSE [st |-> CallHandler(command, ArgsOf(v), st).st, err |-> "nil"])

RECURSIVE aofReadLoop(_, _)
\* The loop of Aof.Read: io.EOF from the parser ends it without error.
aofReadLoop(r, st) ==
    Bind(Read(r), LAMBDA p :
        IF p.err = "EOF" THEN [st |-> st, err |-> "nil"]
        ELSE IF p.err # "nil" THEN [st |-> st, err |-> p.err]
        ELSE Bind(ReplayCallback(p.val, st), LAMBDA c :
                 IF c.err # "nil" THEN [st |-> c.st, err |-> c.err]
                 ELSE aofReadLoop(p.r, c.st)))

\* Aof.Read with main's callback, from offset 0 of the file, into a store.
AofRead(file, st) == aofReadLoop(NewResp(file), st)

---------------------------------------------------------------------------
(* The clients' inputs.                                                    *)

K1 == <<"k">>

K2 == <<"v", "w">>

\* The request a client builds for a command name and its arguments.
Req(name, args) ==
    ArrayValue(<<BulkValue(name)>> \o [i \in 1..Len(args) |-> BulkValue(args[i])])

ClientRequests ==
    {Req(PING, a) : a \in {<<>>, <<K1>>, <<K2, K1>>}}
    \cup {Req(SET, a) : a \in {<<K1>>, <<K1, K1>>, <<K1, K2>>, <<K2, K1>>}}
    \cup {Req(<<"s", "e", "t">>, <<K1, K2>>)}
    \cup {Req(GET, a) : a \in {<<>>, <<K1>>, <<K2>>, <<K1, K2>>}}
    \cup {Req(<<"g", "e", "t">>, <<K1>>)}
    \cup {Req(HSET, a) : a \in {<<K1, K1>>, <<K1, K1, K2>>, <<K2, K1, K1>>}}
    \cup {Req(HGET, a) : a \in {<<K1>>, <<K1, K1>>, <<K2, K1>>, <<K1, K2>>, <<K1, K1, K1>>}}
    \cup {Req(<<"h", "G", "e", "t">>, <<K1, K1>>)}
    \cup {Req(<<"F", "O", "O">>, <<>>), Req(<<"f", "o", "o">>, <<>>),
          Req(<<"f", "o", "o">>, <<K1>>)}

\* Inputs that are no command request: a simple string, a bulk string and
\* an empty array at top level.
OtherSegments ==
    {<<"+", "O", "K", CR, LF>>, Marshal(BulkValue(K1)), Marshal(ArrayValue(<<>>))}

\* What a client sends at once: it arrives whole and fits the buffer.
ClientSegments ==
    {s \in {Marshal(q) : q \in ClientRequests} \cup OtherSegments : Len(s) <= BufSize}

\* Each of them with what Resp.Read gives for it on a new Resp.
ClientInputs == {[seg |-> s, p |-> Read(NewResp(s))] : s \in ClientSegments}

---------------------------------------------------------------------------
(* The server: main's request loop on one connection, and a restart that   *)
(* replays the AOF file into the empty store of a new process.             *)

ServerInit ==
    /\ SETs = EmptyMap
    /\ HSETs = EmptyMap
    /\ aofFile = <<>>
    /\ value = ZeroValue
    /\ reply = <<>>
    /\ phase = "serving"
    /\ appends = 0
    /\ wfail = FALSE
    /\ mruSET = EmptyMap
    /\ mruHSET = EmptyMap

CodecOff ==
    /\ cpc = "off"
    /\ csrc = "built"
    /\ cin = <<>>
    /\ cval = ZeroValue
    /\ cout = <<>>
    /\ cback = [val |-> ZeroValue, err |-> "nil"]

ConnOff ==
    /\ sock = <<>>
    /\ starts = <<>>
    /\ taken = 0
    /\ shut = FALSE
    /\ lpc = "off"
    /\ cur = [id |-> 0, val |-> ZeroValue]
    /\ handled = <<>>
    /\ out = <<>>

\* The mutexes: aof.mu, SETsMu, HSETsMu.
Mutexes == {"aof", "SETs", "HSETs"}

\* The two tasks of the race.
RaceTasks == {"t1", "t2"}

LocksFree ==
    /\ mu = [m \in Mutexes |-> {}]
    /\ acq = [m \in Mutexes |-> "none"]

RaceOff ==
    /\ rpc = [t \in RaceTasks |-> "off"]
    /\ rreq = [t \in RaceTasks |-> ZeroValue]

ProcOff ==
    /\ mpc = "off"
    /\ fpc = "off"
    /\ rr = NewResp(<<>>)
    /\ rerr = "none"
    /\ foff = 0
    /\ nserved = 0
    /\ applied = <<>>
    /\ syncErr = FALSE

Init == ServerInit /\ CodecOff /\ ConnOff /\ LocksFree /\ RaceOff /\ ProcOff

\* Whether main calls Aof.Write for the parsed value.
Appends(v) ==
    /\ v.typ = "array"
    /\ Len(v.array) > 0
    /\ CommandOf(v) \in Handlers
    /\ Durable(CommandOf(v))

\* One pass of main's loop: the client sends in.seg, main parses it with a
\* new Resp, which gives in.p (blocking while the parser wants bytes that
\* have not come), and returns on a parser error.
Request(in, writeOk) ==
    /\ phase = "serving"
    /\ ~in.p.r.eof
    /\ IF in.p.err # "nil"
       THEN /\ phase' = IF in.p.err = "panic" THEN "crashed" ELSE "exited"
            /\ UNCHANGED <<SETs, HSETs, aofFile, value, reply, appends, wfail,
                           mruSET, mruHSET>>
       ELSE LET v  == in.p.val
                ap == Appends(v)
                s  == Serve(v, [SETs |-> SETs, HSETs |-> HSETs], aofFile, writeOk, 0)
                c  == CommandOf(v)
                a  == ArgsOf(v)
            IN  /\ ap => appends < MaxLog
                /\ ~ap => writeOk
                /\ value' = v
                /\ reply' = s.reply
                /\ SETs' = s.st.SETs
                /\ HSETs' = s.st.HSETs
                /\ aofFile' = s.file
                /\ appends' = IF ap THEN appends + 1 ELSE appends
                /\ wfail' = (wfail \/ ~writeOk)
                /\ mruSET' = IF ap /\ c = SET /\ Len(a) = 2
                             THEN MapPut(mruSET, a[1].bulk, a[2].bulk) ELSE mruSET
                /\ mruHSET' = IF ap /\ c = HSET /\ Len(a) = 3
                              THEN MapPut(mruHSET, <<a[1].bulk, a[2].bulk>>, a[3].bulk)
                              ELSE mruHSET
                /\ UNCHANGED phase
    /\ UNCHANGED notServerVars

\* The client closes the connection: Read gives io.EOF and main returns.
ClientClose ==
    /\ phase = "serving"
    /\ phase' = "exited"
    /\ UNCHANGED <<SETs, HSETs, aofFile, value, reply, appends, wfail, mruSET, mruHSET>>
    /\ UNCHANGED notServerVars

\* The process ends and is started again: a new process has empty maps and
\* main runs Aof.Read over the file before it listens.
Restart ==
    /\ phase \in {"serving", "exited"}
    /\ LET r == AofRead(aofFile, EmptyStore)
       IN  /\ SETs' = r.st.SETs
           /\ HSETs' = r.st.HSETs
           /\ phase' = IF r.err = "panic" THEN "crashed" ELSE "replayed"
    /\ value' = ZeroValue
    /\ reply' = <<>>
    /\ UNCHANGED <<aofFile, appends, wfail, mruSET, mruHSET>>
    /\ UNCHANGED notServerVars

\* A file write that fails has written no byte here; the connection and
\* the process machines have the writes that fail after part of a record.
Next ==
    \/ \E in \in ClientInputs, writeOk \in BOOLEAN : Request(in, writeOk)
    \/ ClientClose
    \/ Restart

Spec == Init /\ [][Next]_vars

---------------------------------------------------------------------------
(* The codec alone: parse some bytes, or build a Value; serialize the      *)
(* Value; parse what was serialized.                                       *)

Payloads == {<<>>, K1, K2, <<CR, LF>>}

Bulks == {BulkValue(b) : b \in Payloads}

\* Arrays of at most two bulk strings.
FlatArrays ==
    {ArrayValue(<<>>)} \cup {ArrayValue(<<a>>) : a \in Bulks}
    \cup {ArrayValue(<<a, b>>) : a, b \in Bulks}

\* Arrays with an array among their elements.
NestedArrays ==
    {ArrayValue(<<a>>) : a \in FlatArrays}
    \cup {ArrayValue(<<b, a>>) : b \in {BulkValue(K1)}, a \in FlatArrays}
    \cup {ArrayValue(<<ArrayValue(<<ArrayValue(<<BulkValue(K2)>>)>>), BulkValue(K1)>>)}

\* A Value with typ "integer": Marshal has no case for it.
IntegerValue(n) == [ZeroValue EXCEPT !.typ = "integer", !.num = n]

\* Values of every variant, as a handler or a test can build them.
Constructible ==
    Bulks \cup FlatArrays \cup NestedArrays
    \cup {StringValue(OK), StringValue(PONG), ErrorValue(ErrArity(<<"s", "e", "t">>)),
          IntegerValue(7), NullValue,
          ArrayValue(<<StringValue(OK), BulkValue(K1)>>)}

\* The inputs that are the start of a value's bytes and not all of them.
CutsOf(w) == {SubSeq(w, 1, n) : n \in 1..(Len(w) - 1)}

\* Inputs that end inside a value: in a length line, in a payload, in its
\* closing CRLF, before all the elements of an array.
CutInputs ==
    CutsOf(Marshal(BulkValue(K2)))
    \cup CutsOf(Marshal(ArrayValue(<<BulkValue(K1), BulkValue(K2)>>)))

\* An array longer than the buffer, with a payload that lies across the
\* buffer's end.
LongArray == ArrayValue(<<Req(SET, <<K1, K2>>), BulkValue(K2 \o K2 \o K2)>>)

\* Arrays one of whose elements does not parse: a bulk string whose length
\* is no number, as second element and inside a nested array.
BadElementInputs ==
    {<<"*", "2", CR, LF>> \o Marshal(BulkValue(K1)) \o <<"$", "x", CR, LF>>,
     <<"*", "2", CR, LF, "*", "1", CR, LF, "$", "x", CR, LF>> \o Marshal(BulkValue(K1))}

\* Inputs of the parser: what Marshal gives for bulk strings and arrays,
\* and inputs that start with another byte, or are cut short.
CodecInputs ==
    {Marshal(v) : v \in Bulks \cup FlatArrays \cup NestedArrays}
    \cup CutInputs
    \cup {<<"$", "1", CR, "X", "k", CR, LF>>, <<"$", "1", "x", CR, LF, "k", CR, LF>>}
    \cup BadElementInputs
    \cup {Marshal(LongArray)}
    \cup {<<"+", "O", "K", CR, LF>>, <<":", "7", CR, LF>>, <<"-", "E", CR, LF>>,
          <<"*", "1", CR, LF, "+", "O", "K", CR, LF>>,
          <<"*", "-", "1", CR, LF>>, <<"$", "-", "1", CR, LF>>,
          <<"*", "x", CR, LF>>, <<"$", "2", CR, LF, "v">>, <<"*", "1", CR, LF>>, <<>>}

CodecInit ==
    /\ ServerInit
    /\ ConnOff
    /\ LocksFree
    /\ RaceOff
    /\ ProcOff
    /\ cout = <<>>
    /\ cback = [val |-> ZeroValue, err |-> "nil"]
    /\ \/ cpc = "bytes" /\ csrc = "parser" /\ cin \in CodecInputs /\ cval = ZeroValue
       \/ cpc = "value" /\ csrc = "built" /\ cin = <<>> /\ cval \in Constructible

\* Resp.Read on the input; a Value comes out when there is no error.
CodecParse ==
    /\ cpc = "bytes"
    /\ LET p == Read(NewResp(cin))
       IN  IF p.err = "nil"
           THEN cpc' = "value" /\ cval' = p.val /\ cback' = cback
           ELSE cpc' = "rejected" /\ cval' = cval
                /\ cback' = [val |-> ZeroValue, err |-> p.err]
    /\ UNCHANGED <<csrc, cin, cout>>
    /\ UNCHANGED notCodecVars

\* Value.Marshal.
CodecMarshal ==
    /\ cpc = "value"
    /\ cout' = Marshal(cval)
    /\ cpc' = "wire"
    /\ UNCHANGED <<csrc, cin, cval, cback>>
    /\ UNCHANGED notCodecVars

\* Resp.Read on the serialized bytes.
CodecReparse ==
    /\ cpc = "wire"
    /\ LET p == Read(NewResp(cout))
       IN  cback' = [val |-> p.val, err |-> p.err]
    /\ cpc' = "done"
    /\ UNCHANGED <<csrc, cin, cval, cout>>
    /\ UNCHANGED notCodecVars

CodecNext == CodecParse \/ CodecMarshal \/ CodecReparse

SpecCodec == CodecInit /\ [][CodecNext]_vars

---------------------------------------------------------------------------
(* The claims.                                                             *)

\* A step of Restart: the replay of the AOF file into an empty store.
IsReplay == phase \in {"serving", "exited"} /\ phase' \in {"replayed", "crashed"}

\* A step of Request that parsed a value: value' is the value and reply'
\* what was written for it.
IsServe == phase = "serving" /\ phase' = "serving"

\* A command request: an array whose first element names the command.
IsRequest(v) == v.typ = "array" /\ Len(v.array) > 0

\* The command name of a request as the client wrote it, and upper-cased.
NameOf(v) == v.array[1].bulk

UpperNameOf(v) == ToUpper(NameOf(v))

NArgs(v) == Len(v.array) - 1

\* The bulk payload of argument i of a request.
Arg(v, i) == v.array[i + 1].bulk

\* C1: when no write to the AOF file has failed, the replay of the file into
\* an empty store gives the SETs and HSETs maps the live store holds.
C1_ReplayReconstructsStore ==
    [][(IsReplay /\ ~wfail) => (SETs' = SETs /\ HSETs' = HSETs)]_vars

\* C2: with no write failure, a request whose upper-cased command name is
\* SET or HSET appends its serialization to the log, and any other request
\* (PING, GET, HGET, an unknown command) leaves the log as it is; from the
\* empty log, the log is so the concatenation of those serializations in
\* arrival order.
C2_LogIsTheDurableRequests ==
    [][(IsServe /\ ~wfail') =>
          aofFile' = IF IsRequest(value') /\ UpperNameOf(value') \in {SET, HSET}
                     THEN aofFile \o Marshal(value')
                     ELSE aofFile]_vars

\* C2's case: two records are in the log and a read came after them.
C2_Witness ==
    /\ phase = "serving"
    /\ ~wfail
    /\ appends = 2
    /\ aofFile = Marshal(Req(SET, <<K1, K2>>)) \o Marshal(Req(HSET, <<K1, K1, K2>>))
    /\ value = Req(HGET, <<K1, K1>>)

\* C3: a Value the parser returned without error is what the parser
\* returns, without error, for its serialization.
C3_ParsedValuesRoundTrip ==
    (cpc = "done" /\ csrc = "parser") => (cback.err = "nil" /\ cback.val = cval)

\* C4: a built Value of any variant is what the parser returns, without
\* error, for its serialization.
C4_BuiltValuesRoundTrip ==
    (cpc = "done" /\ csrc = "built") => (cback.err = "nil" /\ cback.val = cval)

\* C5: GET k answers with the bulk string of the value of the latest SET
\* with two arguments on k, with Null when there was none, and a GET leaves
\* the SETs map as it is.
C5_GetReturnsLatestSet ==
    [][IsServe =>
          /\ (IsRequest(value') /\ UpperNameOf(value') = GET /\ NArgs(value') = 1) =>
                reply' = <<IF Arg(value', 1) \in DOMAIN mruSET'
                           THEN BulkValue(mruSET'[Arg(value', 1)])
                           ELSE NullValue>>
          /\ (IsRequest(value') /\ UpperNameOf(value') = GET) => SETs' = SETs]_vars

\* C5's case: k was set twice, and GET k gave the second value.
C5_Witness ==
    /\ phase = "serving"
    /\ aofFile = Marshal(Req(SET, <<K1, K1>>)) \o Marshal(Req(SET, <<K1, K2>>))
    /\ value = Req(GET, <<K1>>)
    /\ reply = <<BulkValue(K2)>>

\* What HGET h f answers on a store.
HgetAnswer(h, f, st) == hget(<<BulkValue(h), BulkValue(f)>>, st).res

\* C6: HGET h f answers with the bulk string of the value of the latest HSET
\* with three arguments on (h, f), with Null when there was none, and an
\* HSET on a hash leaves the answer of HGET for every other hash as it was.
C6_HgetReturnsLatestHset ==
    [][IsServe =>
          /\ (IsRequest(value') /\ UpperNameOf(value') = HGET /\ NArgs(value') = 2) =>
                reply' = <<IF <<Arg(value', 1), Arg(value', 2)>> \in DOMAIN mruHSET'
                           THEN BulkValue(mruHSET'[<<Arg(value', 1), Arg(value', 2)>>])
                           ELSE NullValue>>
          /\ (IsRequest(value') /\ UpperNameOf(value') = HSET /\ NArgs(value') = 3) =>
                \A h2 \in {K1, K2} \ {Arg(value', 1)}, f \in {K1, K2} :
                    HgetAnswer(h2, f, [SETs |-> SETs', HSETs |-> HSETs'])
                        = HgetAnswer(h2, f, [SETs |-> SETs, HSETs |-> HSETs])]_vars

\* C6's case: the field k of two hashes was set, and HGET gave the value of
\* the first hash.
C6_Witness ==
    /\ phase = "serving"
    /\ aofFile = Marshal(Req(HSET, <<K1, K1, K2>>)) \o Marshal(Req(HSET, <<K2, K1, K1>>))
    /\ value = Req(HGET, <<K1, K1>>)
    /\ reply = <<BulkValue(K2)>>

WrongNumber ==
    <<"w", "r", "o", "n", "g", " ", "n", "u", "m", "b", "e", "r", " ", "o", "f", " ",
      "a", "r", "g", "u", "m", "e", "n", "t", "s">>

\* An Error Value that says "wrong number of arguments".
IsArityError(v) == v.typ = "error" /\ Contains(v.str, WrongNumber)

\* A SET, GET, HSET or HGET request with another number of arguments than
\* 2, 1, 3, 2.
WrongArity(v) ==
    /\ IsRequest(v)
    /\ \/ UpperNameOf(v) = SET /\ NArgs(v) # 2
       \/ UpperNameOf(v) = GET /\ NArgs(v) # 1
       \/ UpperNameOf(v) = HSET /\ NArgs(v) # 3
       \/ UpperNameOf(v) = HGET /\ NArgs(v) # 2

\* C7: SET, GET, HSET and HGET with a wrong number of arguments answer with
\* an Error that says so and leave both maps as they are.
C7_ArityErrors ==
    [][(IsServe /\ WrongArity(value')) =>
          /\ Len(reply') = 1
          /\ IsArityError(reply'[1])
          /\ SETs' = SETs
          /\ HSETs' = HSETs]_vars

\* C7's case: with both maps filled, an HGET with three arguments was
\* answered with the error.
C7_Witness ==
    /\ phase = "serving"
    /\ SETs # EmptyMap
    /\ HSETs # EmptyMap
    /\ value = Req(HGET, <<K1, K1, K1>>)
    /\ Len(reply) = 1
    /\ IsArityError(reply[1])

\* C8: PING answers PONG without arguments, the argument with one, and the
\* wrong-number-of-arguments Error with two or more.
C8_PingArity ==
    (phase = "serving" /\ IsRequest(value) /\ UpperNameOf(value) = PING) =>
        /\ Len(reply) = 1
        /\ NArgs(value) = 0 => reply[1] = StringValue(PONG)
        /\ NArgs(value) = 1 => reply[1] = StringValue(Arg(value, 1))
        /\ NArgs(value) >= 2 => IsArityError(reply[1])

\* "ERR unknown command '<name>'" for the name main looked up.
UnknownCommandText(name) ==
    <<"E", "R", "R", " ", "u", "n", "k", "n", "o", "w", "n", " ", "c", "o", "m", "m",
      "a", "n", "d", " ", "'">> \o name \o <<"'">>

\* C9: a request whose command is not one of PING, SET, GET, HSET, HGET is
\* answered with the Error "ERR unknown command '<name>'", the name as it
\* was looked up, and leaves the maps and the log as they are.
C9_UnknownCommand ==
    [][(IsServe /\ IsRequest(value')
          /\ UpperNameOf(value') \notin {PING, SET, GET, HSET, HGET}) =>
          /\ reply' = <<ErrorValue(UnknownCommandText(UpperNameOf(value')))>>
          /\ SETs' = SETs
          /\ HSETs' = HSETs
          /\ aofFile' = aofFile]_vars

\* C9's case: with the maps and the log filled, "foo k" was answered.
C9_Witness ==
    /\ phase = "serving"
    /\ SETs # EmptyMap
    /\ HSETs # EmptyMap
    /\ Len(aofFile) > 0
    /\ value = Req(<<"f", "o", "o">>, <<K1>>)
    /\ Len(reply) = 1
    /\ reply[1].typ = "error"

\* Two byte strings that differ at most in the case of their letters.
SameButCase(a, b) ==
    /\ Len(a) = Len(b)
    /\ \A i \in 1..Len(a) :
          \/ a[i] = b[i]
          \/ a[i] \in DOMAIN UpperOf /\ UpperOf[a[i]] = b[i]
          \/ b[i] \in DOMAIN UpperOf /\ UpperOf[b[i]] = a[i]
          \/ a[i] \in DOMAIN UpperOf /\ b[i] \in DOMAIN UpperOf /\ UpperOf[a[i]] = UpperOf[b[i]]

\* The pairs of distinct client requests that differ only in the case of
\* the command name.
CasePairs ==
    {pr \in {in.p.val : in \in {i \in ClientInputs : i.p.err = "nil" /\ IsRequest(i.p.val)}}
            \X {in.p.val : in \in {i \in ClientInputs : i.p.err = "nil" /\ IsRequest(i.p.val)}} :
        /\ pr[1] # pr[2]
        /\ SameButCase(NameOf(pr[1]), NameOf(pr[2]))
        /\ Tail(pr[1].array) = Tail(pr[2].array)}

\* C10: on every store the server reaches, two requests that differ only in
\* the case of the command name get the same answer and leave the same
\* maps, in the request loop and in the replay callback.
C10_CaseInsensitive ==
    \A pr \in CasePairs :
        LET st == [SETs |-> SETs, HSETs |-> HSETs]
            s1 == Serve(pr[1], st, aofFile, TRUE, 0)
            s2 == Serve(pr[2], st, aofFile, TRUE, 0)
        IN  /\ s1.reply = s2.reply
            /\ s1.st = s2.st
            /\ ReplayCallback(pr[1], st) = ReplayCallback(pr[2], st)

\* C10's case: "set k vw" in lower case was served on a store where k held
\* another value, and changed it.
C10_Witness ==
    /\ phase = "serving"
    /\ Cardinality(CasePairs) >= 6
    /\ value = Req(<<"s", "e", "t">>, <<K1, K2>>)
    /\ reply = <<StringValue(OK)>>
    /\ aofFile = Marshal(Req(SET, <<K1, K1>>)) \o Marshal(value)
    /\ SETs[K1] = K2

---------------------------------------------------------------------------
(* The claims on the wire format and on the parser.                        *)

\* The decimal digits of a number below 100.
Decimal(n) ==
    IF n < 10 THEN <<Digits[n + 1]>>
    ELSE <<Digits[(n \div 10) + 1], Digits[(n % 10) + 1]>>

\* A SimpleString, Error, BulkString, Null, or an Array of such Values.
RECURSIVE IsWireVariant(_)
IsWireVariant(v) ==
    /\ v.typ \in {"string", "error", "bulk", "array", "null"}
    /\ \A i \in 1..Len(v.array) : IsWireVariant(v.array[i])

\* The wire format as the specification writes it.
RECURSIVE WireOf(_)
RECURSIVE WireOfAll(_)
WireOfAll(a) == IF Len(a) = 0 THEN <<>> ELSE WireOf(Head(a)) \o WireOfAll(Tail(a))

WireOf(v) ==
    CASE v.typ = "string" -> <<"+">> \o v.str \o <<"\r", "\n">>
      [] v.typ = "error"  -> <<"-">> \o v.str \o <<"\r", "\n">>
      [] v.typ = "bulk"   -> <<"$">> \o Decimal(Len(v.bulk)) \o <<"\r", "\n">>
                                 \o v.bulk \o <<"\r", "\n">>
      [] v.typ = "array"  -> <<"*">> \o Decimal(Len(v.array)) \o <<"\r", "\n">>
                                 \o WireOfAll(v.array)
      [] v.typ = "null"   -> <<"$", "-", "1", "\r", "\n">>

\* C11: Marshal gives '+' text CRLF for a SimpleString, '-' text CRLF for an
\* Error, '$' length CRLF payload CRLF for a BulkString, '*' count CRLF and
\* the serializations of the elements in order for an Array, and "$-1\r\n"
\* for Null.
C11_MarshalFormat ==
    (cpc \in {"wire", "done"} /\ IsWireVariant(cval)) => cout = WireOf(cval)

\* C11's case: an array of a simple string and a bulk string was serialized.
C11_Witness ==
    /\ cpc = "wire"
    /\ cval = ArrayValue(<<StringValue(OK), BulkValue(K1)>>)
    /\ cout = <<"*", "2", "\r", "\n", "+", "O", "K", "\r", "\n",
                "$", "1", "\r", "\n", "k", "\r", "\n">>

\* C12: the parser gives Null for "$-1\r\n", without failing, and the empty
\* BulkString, which is not Null, for "$0\r\n\r\n".
C12_NegativeLengthIsNull ==
    (csrc = "parser" /\ cpc # "bytes") =>
        /\ cin = <<"$", "-", "1", "\r", "\n">> =>
              (cpc # "rejected" /\ cval = NullValue)
        /\ cin = <<"$", "0", "\r", "\n", "\r", "\n">> =>
              (cpc # "rejected" /\ cval = BulkValue(<<>>) /\ cval # NullValue)

---------------------------------------------------------------------------
(* The connection: a client that sends requests, one after another or      *)
(* several back to back, and main's loop on the connection step by step:   *)
(* read and parse, dispatch, write the response.                           *)

\* Number of requests the client sends.
MaxSend == 3

\* What the client sends: command requests, among them an unknown command
\* and a GET without its key, an empty array, a bulk string, and a simple
\* string, whose first byte the parser has no case for.
ConnSends ==
    {Marshal(q) : q \in {Req(PING, <<>>), Req(GET, <<K1>>), Req(GET, <<>>),
                         Req(SET, <<K1, K2>>), Req(HSET, <<K1, K1, K2>>),
                         Req(<<"F", "O", "O">>, <<>>), ArrayValue(<<>>),
                         BulkValue(K1)}}
    \cup {<<"+", "O", "K", CR, LF>>}

ConnInit ==
    /\ ServerInit
    /\ CodecOff
    /\ LocksFree
    /\ RaceOff
    /\ ProcOff
    /\ sock = <<>>
    /\ starts = <<>>
    /\ taken = 0
    /\ shut = FALSE
    /\ lpc = "read"
    /\ cur = [id |-> 0, val |-> ZeroValue]
    /\ handled = <<>>
    /\ out = <<>>

\* The request that starts at a stream offset: its number in arrival order,
\* 0 when none starts there.
IdAt(off) ==
    IF \E i \in 1..Len(starts) : starts[i] = off
    THEN CHOOSE i \in 1..Len(starts) : starts[i] = off
    ELSE 0

\* The client writes the bytes of a request to the connection.
ClientSend(b) ==
    /\ lpc # "off"
    /\ ~shut
    /\ Len(starts) < MaxSend
    /\ sock' = sock \o b
    /\ starts' = Append(starts, taken + Len(sock))
    /\ UNCHANGED <<taken, shut, lpc, cur, handled, out>>
    /\ UNCHANGED <<serverVars, notConnVars>>

\* The client closes the connection.
ClientShut ==
    /\ lpc # "off"
    /\ ~shut
    /\ shut' = TRUE
    /\ UNCHANGED <<sock, starts, taken, lpc, cur, handled, out>>
    /\ UNCHANGED <<serverVars, notConnVars>>

\* A wrong validation: main returns on a Value that is no command request.
AfterRead_m(v) ==
    IF v.typ = "array" /\ Len(v.array) > 0 THEN "handle" ELSE "closed"

\* Where main is after it has parsed v: a Value that is no array, or an
\* array without elements, is skipped with continue.
AfterRead(v) ==
    IF v.typ # "array" THEN "read"
    ELSE IF Len(v.array) = 0 THEN "read"
    ELSE "handle"

\* resp := NewResp(conn); value, err := resp.Read(): a new bufio.Reader
\* takes what has arrived, up to its buffer's size, each time it is empty,
\* and blocks while the parser wants bytes that have not arrived.  The
\* Resp, and what its buffer holds, is dropped at the end of the pass.  On
\* an error main returns; a Value that is no command request is skipped.
ConnRead ==
    /\ lpc = "read"
    /\ \E p \in {Read(NewResp(sock))} :
          /\ p.r.eof => shut
          /\ taken' = taken + p.r.w
          /\ sock' = SubSeq(sock, p.r.w + 1, Len(sock))
          /\ IF p.err # "nil"
             THEN /\ lpc' = "closed"
                  /\ UNCHANGED <<cur, handled>>
             ELSE /\ cur' = [id |-> IdAt(taken), val |-> p.val]
                  /\ handled' = Append(handled,
                                   [id  |-> IdAt(taken),
                                    cmd |-> p.val.typ = "array" /\ Len(p.val.array) > 0])
                  /\ lpc' = AfterRead(p.val)
    /\ UNCHANGED <<starts, shut, out>>
    /\ UNCHANGED <<serverVars, notConnVars>>

\* A wrong end of a pass: main returns.
AfterWrite_m == "closed"

\* Where main is after it has written a response: at the top of the loop.
AfterWrite == "read"

\* The rest of the loop body up to the handler's result: the lookup, the
\* append to the AOF file, which succeeds or fails after part bytes, the
\* handler.
ConnHandle ==
    /\ lpc = "handle"
    /\ \E writeOk \in BOOLEAN :
       \E part \in IF writeOk THEN {0} ELSE FailedWriteLens :
       \E s \in {Serve(cur.val, [SETs |-> SETs, HSETs |-> HSETs], aofFile, writeOk, part)} :
          /\ ~Appends(cur.val) => writeOk
          /\ SETs' = s.st.SETs
          /\ HSETs' = s.st.HSETs
          /\ aofFile' = s.file
          /\ reply' = s.reply
          /\ wfail' = (wfail \/ ~writeOk)
    /\ value' = cur.val
    /\ lpc' = "write"
    /\ UNCHANGED <<phase, appends, mruSET, mruHSET>>
    /\ UNCHANGED <<sock, starts, taken, shut, cur, handled, out>>
    /\ UNCHANGED notConnVars

\* A wrong WriterWrite: nothing is written.
WriterWrite_m(o, id, v) == o

\* Writer.Write: the bytes of the Value go to the connection, here with the
\* number of the request they answer.
WriterWrite(o, id, v) == Append(o, [id |-> id, bytes |-> Marshal(v)])

\* writer.Write(result), or the write of the unknown-command error.
ConnWrite ==
    /\ lpc = "write"
    /\ out' = WriterWrite(out, cur.id, reply[1])
    /\ lpc' = AfterWrite
    /\ UNCHANGED <<sock, starts, taken, shut, cur, handled>>
    /\ UNCHANGED <<serverVars, notConnVars>>

ConnNext ==
    \/ \E b \in ConnSends : ClientSend(b)
    \/ ClientShut
    \/ ConnRead
    \/ ConnHandle
    \/ ConnWrite

SpecConn == ConnInit /\ [][ConnNext]_vars

\* The numbers of the requests among what main has parsed, and of the
\* requests whose response has been written.
HandledIds == [i \in 1..Len(handled) |-> handled[i].id]

CommandIds == LET c == SelectSeq(handled, LAMBDA h : h.cmd) IN [i \in 1..Len(c) |-> c[i].id]

OutIds == [i \in 1..Len(out) |-> out[i].id]

\* C13: on a connection main parses the requests in the order of their
\* arrival, and whenever it reads, the response to every command request it
\* has parsed before is written, in the same order; while it works on a
\* request only that request's response is missing.
C13_InOrderOneAtATime ==
    lpc # "off" =>
        /\ \A i, j \in 1..Len(handled) :
              (i < j /\ handled[i].id # 0 /\ handled[j].id # 0) =>
                  handled[i].id < handled[j].id
        /\ lpc \in {"read", "closed"} => OutIds = CommandIds
        /\ lpc \in {"handle", "write"} =>
              /\ Len(CommandIds) = Len(OutIds) + 1
              /\ OutIds = SubSeq(CommandIds, 1, Len(OutIds))
        /\ \A i \in 1..Len(out) : out[i].bytes # <<>>

\* C13's case: three requests were answered, one after the other.
C13_Witness ==
    /\ lpc = "read"
    /\ OutIds = <<1, 2, 3>>
    /\ HandledIds = <<1, 2, 3>>

\* A request main answers with a command error: the name is in no entry of
\* Handlers, or the handler finds a wrong number of arguments.
IsCommandError(v) ==
    /\ IsRequest(v)
    /\ \/ UpperNameOf(v) \notin {PING, SET, GET, HSET, HGET}
       \/ WrongArity(v)
       \/ UpperNameOf(v) = PING /\ NArgs(v) >= 2

IsMutation(v) ==
    /\ IsRequest(v)
    /\ \/ UpperNameOf(v) = SET /\ NArgs(v) = 2
       \/ UpperNameOf(v) = HSET /\ NArgs(v) = 3

\* The step of main that handles a SET or HSET whose append failed: the
\* file is not left with the whole record added.
IsFailedAppend ==
    /\ lpc = "handle"
    /\ lpc' = "write"
    /\ IsMutation(cur.val)
    /\ aofFile' # aofFile \o Marshal(cur.val)

\* What the handler of a SET or HSET does, and what is written for it: the
\* map holds the value, the response is OK, and the write step sends the
\* response.
MutationServed ==
    /\ IsFailedAppend =>
          /\ reply' = <<StringValue(OK)>>
          /\ UpperNameOf(cur.val) = SET =>
                /\ SETs' = MapPut(SETs, Arg(cur.val, 1), Arg(cur.val, 2))
                /\ HSETs' = HSETs
          /\ UpperNameOf(cur.val) = HSET =>
                /\ Arg(cur.val, 1) \in DOMAIN HSETs'
                /\ Arg(cur.val, 2) \in DOMAIN HSETs'[Arg(cur.val, 1)]
                /\ HSETs'[Arg(cur.val, 1)][Arg(cur.val, 2)] = Arg(cur.val, 3)
                /\ SETs' = SETs
    /\ (lpc = "write" /\ lpc' # lpc) =>
          /\ Len(out') = Len(out) + 1
          /\ out'[Len(out')] = [id |-> cur.id, bytes |-> Marshal(reply[1])]
    /\ lpc # "handle" => aofFile' = aofFile

\* A sequence that is the start of another and shorter.
IsProperPrefix(a, b) == Len(a) < Len(b) /\ a = SubSeq(b, 1, Len(a))

---------------------------------------------------------------------------
(* The mutexes, and two tasks that each run the path of a SET request:     *)
(* aof.Write, then set.  main serves one connection; the two tasks are     *)
(* two callers of Aof.Write and set, as two connection tasks would be.     *)

\* A wrong CanLock: Lock never waits.
CanLock_m(m) == TRUE

\* Lock returns when no task holds the mutex.
CanLock(m) == mu[m] = {}

\* RLock returns when no task holds the mutex for writing.
CanRLock(m) == \A h \in mu[m] : h[2] = "r"

\* The mutex after Lock (mode "w") or RLock (mode "r") by a task, and after
\* its Unlock or RUnlock.
Locked(m, t, mode) == [mu EXCEPT ![m] = @ \cup {<<t, mode>>}]

\* A wrong Unlocked: the mutex stays held.
Unlocked_m(m, t) == mu

Unlocked(m, t) == [mu EXCEPT ![m] = {h \in @ : h[1] # t}]

\* The last task that took Lock on each mutex.
Acquired(m, t, mode) == IF mode = "w" THEN [acq EXCEPT ![m] = t] ELSE acq

\* The mutexes a task holds.
Held(t) == {m \in Mutexes : \E h \in mu[m] : h[1] = t}

RaceRequests == {Req(SET, <<K1, K1>>), Req(SET, <<K1, K2>>), Req(SET, <<K2, K1>>)}

RaceInit ==
    /\ ServerInit
    /\ CodecOff
    /\ ConnOff
    /\ LocksFree
    /\ ProcOff
    /\ rpc = [t \in RaceTasks |-> "start"]
    /\ rreq \in [RaceTasks -> RaceRequests]

\* What the steps of the race leave alone, but for the store, the file and
\* the mutexes.
RaceFrame ==
    /\ UNCHANGED <<value, reply, phase, appends, wfail, mruSET, mruHSET, HSETs>>
    /\ UNCHANGED <<codecVars, connVars, procVars, rreq>>

\* Aof.Write: aof.mu.Lock().
RaceAofLock(t) ==
    /\ rpc[t] = "start"
    /\ CanLock("aof")
    /\ mu' = Locked("aof", t, "w")
    /\ acq' = Acquired("aof", t, "w")
    /\ rpc' = [rpc EXCEPT ![t] = "aofLocked"]
    /\ UNCHANGED <<SETs, aofFile>>
    /\ RaceFrame

\* Aof.Write: aof.file.Write(value.Marshal()).
RaceAofWrite(t) ==
    /\ rpc[t] = "aofLocked"
    /\ aofFile' = AofWrite(aofFile, rreq[t])
    /\ rpc' = [rpc EXCEPT ![t] = "aofWritten"]
    /\ UNCHANGED <<SETs, mu, acq>>
    /\ RaceFrame

\* Aof.Write: the deferred aof.mu.Unlock().
RaceAofUnlock(t) ==
    /\ rpc[t] = "aofWritten"
    /\ mu' = Unlocked("aof", t)
    /\ rpc' = [rpc EXCEPT ![t] = "appended"]
    /\ UNCHANGED <<SETs, aofFile, acq>>
    /\ RaceFrame

\* set: SETsMu.Lock().
RaceSetLock(t) ==
    /\ rpc[t] = "appended"
    /\ CanLock("SETs")
    /\ mu' = Locked("SETs", t, "w")
    /\ acq' = Acquired("SETs", t, "w")
    /\ rpc' = [rpc EXCEPT ![t] = "setLocked"]
    /\ UNCHANGED <<SETs, aofFile>>
    /\ RaceFrame

\* set: SETs[key] = value.
RaceSetAssign(t) ==
    /\ rpc[t] = "setLocked"
    /\ SETs' = set(ArgsOf(rreq[t]), [SETs |-> SETs, HSETs |-> HSETs]).st.SETs
    /\ rpc' = [rpc EXCEPT ![t] = "setAssigned"]
    /\ UNCHANGED <<aofFile, mu, acq>>
    /\ RaceFrame

\* set: SETsMu.Unlock().
RaceSetUnlock(t) ==
    /\ rpc[t] = "setAssigned"
    /\ mu' = Unlocked("SETs", t)
    /\ rpc' = [rpc EXCEPT ![t] = "done"]
    /\ UNCHANGED <<SETs, aofFile, acq>>
    /\ RaceFrame

RaceNext ==
    \E t \in RaceTasks :
        \/ RaceAofLock(t)
        \/ RaceAofWrite(t)
        \/ RaceAofUnlock(t)
        \/ RaceSetLock(t)
        \/ RaceSetAssign(t)
        \/ RaceSetUnlock(t)

SpecRace == RaceInit /\ [][RaceNext]_vars

\* The key and the value of a task's SET.
RaceKey(t) == rreq[t].array[2].bulk

RaceVal(t) == rreq[t].array[3].bulk

\* C14: when two tasks have run SET on one key, SETs holds the key with the
\* value of one of the two, that of the task that took SETsMu.Lock() last.
C14_LastLockerWins ==
    (\A t \in RaceTasks : rpc[t] = "done") =>
        \A t \in RaceTasks :
            /\ RaceKey(t) \in DOMAIN SETs
            /\ SETs[RaceKey(t)] \in {RaceVal(u) : u \in {x \in RaceTasks : RaceKey(x) = RaceKey(t)}}
            /\ (\A u \in RaceTasks : RaceKey(u) = RaceKey(t)) =>
                  SETs[RaceKey(t)] = RaceVal(acq["SETs"])

\* C14's case: the two tasks set k to two values, t1 took the lock last and
\* its value is the one that stays.
C14_Witness ==
    /\ \A t \in RaceTasks : rpc[t] = "done"
    /\ rreq["t1"] = Req(SET, <<K1, K1>>)
    /\ rreq["t2"] = Req(SET, <<K1, K2>>)
    /\ acq["SETs"] = "t1"
    /\ SETs[K1] = K1

---------------------------------------------------------------------------
(* The process: main from its start to its return, step by step, with the  *)
(* mutexes it takes, and the goroutine NewAof starts.  The AOF file holds  *)
(* what an earlier process left in it.                                     *)

\* Number of requests main reads on the connection.
MaxServe == 1

RecSet == Marshal(Req(SET, <<K1, K2>>))

RecHset == Marshal(Req(HSET, <<K1, K1, K2>>))

\* A line that is no array header: its length is not a number.
BadHeader == <<"*", "x", CR, LF>>

RECURSIVE MarshalAll(_)
\* The bytes of a sequence of Values, one after the other.
MarshalAll(vs) == IF vs = <<>> THEN <<>> ELSE Marshal(Head(vs)) \o MarshalAll(Tail(vs))

\* Logs of whole records: none, one, two with a payload across the end of
\* the buffer, two with none across it, and records of commands that are
\* not appended.
WholeLogs ==
    {<<>>,
     <<Req(SET, <<K1, K2>>)>>,
     <<Req(SET, <<K1, K2>>), Req(HSET, <<K1, K1, K2>>)>>,
     <<Req(SET, <<K1, K1>>), Req(SET, <<K1, K2>>)>>,
     <<Req(<<"F", "O", "O">>, <<>>), Req(GET, <<K1>>)>>}

\* Logs whose last record is cut: whole records, then the first keep bytes
\* of one more, cut inside its last payload or inside a header.
CutLogs ==
    {[whole |-> <<>>, last |-> Req(SET, <<K1, K2>>), keep |-> 25],
     [whole |-> <<Req(SET, <<K1, K1>>)>>, last |-> Req(SET, <<K1, K2>>), keep |-> 6]}

CutBytes(c) == MarshalAll(c.whole) \o SubSeq(Marshal(c.last), 1, c.keep)

\* The AOF file at the start of the process: whole records; a cut last
\* record; a header that does not parse, alone and with more after it than
\* the buffer takes.
Logs ==
    {MarshalAll(w) : w \in WholeLogs}
    \cup {CutBytes(c) : c \in CutLogs}
    \cup {BadHeader, BadHeader \o RecHset}

\* What the client sends on the connection.
ProcRequests ==
    {Req(SET, <<K1, K1>>), Req(SET, <<K1>>), Req(GET, <<K1>>),
     Req(HSET, <<K1, K1, K2>>), Req(<<"F", "O", "O">>, <<>>)}

ProcInit ==
    /\ SETs = EmptyMap
    /\ HSETs = EmptyMap
    /\ aofFile \in Logs
    /\ value = ZeroValue
    /\ reply = <<>>
    /\ phase = "serving"
    /\ appends = 0
    /\ wfail = FALSE
    /\ mruSET = EmptyMap
    /\ mruHSET = EmptyMap
    /\ CodecOff
    /\ ConnOff
    /\ LocksFree
    /\ RaceOff
    /\ mpc = "start"
    /\ fpc = "off"
    /\ rr = NewResp(<<>>)
    /\ rerr = "none"
    /\ foff = 0
    /\ nserved = 0
    /\ applied = <<>>
    /\ syncErr = FALSE

\* What the steps of the process leave alone of the other machines and of
\* the histories of the request-level machine.
OtherFrame ==
    /\ UNCHANGED <<phase, appends, mruSET, mruHSET>>
    /\ UNCHANGED <<codecVars, connVars, raceVars, acq>>

\* What the steps of the process other than the Sync leave alone.
ProcFrame == OtherFrame /\ UNCHANGED syncErr

\* The mutex a handler takes for its arguments and how: the handlers check
\* the number of arguments before they lock, and ping takes none.
LockOf(command, args) ==
    IF command = SET /\ Len(args) = 2 THEN <<"SETs", "w">>
    ELSE IF command = GET /\ Len(args) = 1 THEN <<"SETs", "r">>
    ELSE IF command = HSET /\ Len(args) = 3 THEN <<"HSETs", "w">>
    ELSE IF command = HGET /\ Len(args) = 2 THEN <<"HSETs", "r">>
    ELSE <<"none", "none">>

\* Whether Lock or RLock on the mutex returns.
CanTake(l) == IF l[2] = "w" THEN CanLock(l[1]) ELSE CanRLock(l[1])

\* aof, err := NewAof("database.aof"): the file is open at offset 0 and
\* the goroutine is started.
ProcNewAof ==
    /\ mpc = "start"
    /\ mpc' = "readLock"
    /\ fpc' = "lock"
    /\ UNCHANGED <<SETs, HSETs, aofFile, value, reply, wfail, mu>>
    /\ UNCHANGED <<rr, rerr, foff, nserved, applied>>
    /\ ProcFrame

\* Aof.Read: aof.mu.Lock(), Seek(0, 0), NewResp(aof.file).
ProcReadLock ==
    /\ mpc = "readLock"
    /\ CanLock("aof")
    /\ mu' = Locked("aof", "main", "w")
    /\ rr' = NewResp(aofFile)
    /\ foff' = 0
    /\ mpc' = "replay"
    /\ UNCHANGED <<SETs, HSETs, aofFile, value, reply, wfail>>
    /\ UNCHANGED <<fpc, rerr, nserved, applied>>
    /\ ProcFrame

\* A wrong return of the callback: main goes on to the request loop.
AfterCallback_m == "serve"

\* Where main is when the replay callback returns: in the loop of Aof.Read.
AfterCallback == "replay"

RECURSIVE ReplayRun(_)
\* The results of the calls of resp.Read() in the loop of Aof.Read, from a
\* Resp on: the loop ends with the first error.
ReplayRun(r) ==
    Bind(Read(r), LAMBDA p : IF p.err # "nil" THEN <<p>> ELSE <<p>> \o ReplayRun(p.r))

\* For each file the process may start with, the results of the calls of
\* resp.Read() of Aof.Read, in order.
ReplayReads == [l \in Logs |-> ReplayRun(NewResp(l))]

\* Aof.Read: value, err := resp.Read() and what the loop does with err:
\* the call after those that gave the Values in applied.  The file's
\* offset is after the bytes the bufio.Reader has taken.
ProcReplayRead ==
    /\ mpc = "replay"
    /\ \E p \in {ReplayReads[rr.data][Len(applied) + 1]} :
          /\ rr' = p.r
          /\ foff' = p.r.w
          /\ IF p.err = "nil"
             THEN /\ value' = p.val
                  /\ applied' = Append(applied, p.val)
                  /\ mpc' = "callback"
                  /\ UNCHANGED rerr
             ELSE /\ mpc' = IF p.err = "panic" THEN "crashed" ELSE "readUnlock"
                  /\ rerr' = IF p.err = "EOF" THEN "nil"
                             ELSE IF p.err = "panic" THEN rerr ELSE p.err
                  /\ UNCHANGED <<value, applied>>
    /\ UNCHANGED <<SETs, HSETs, aofFile, reply, wfail, mu>>
    /\ UNCHANGED <<fpc, nserved>>
    /\ ProcFrame

\* The replay callback up to the handler's lock: value.array[0] panics on
\* a Value without elements, an unknown command is skipped, a handler that
\* takes no mutex runs, and one that takes a mutex has taken it.
ProcCallback ==
    /\ mpc = "callback"
    /\ IF Len(value.array) = 0
       THEN /\ mpc' = "crashed"
            /\ UNCHANGED mu
       ELSE \E l \in {LockOf(CommandOf(value), ArgsOf(value))} :
               IF CommandOf(value) \notin Handlers \/ l[1] = "none"
               THEN /\ mpc' = AfterCallback
                    /\ UNCHANGED mu
               ELSE /\ CanTake(l)
                    /\ mu' = Locked(l[1], "main", l[2])
                    /\ mpc' = "cbHeld"
    /\ UNCHANGED <<SETs, HSETs, aofFile, value, reply, wfail>>
    /\ UNCHANGED <<fpc, rr, rerr, foff, nserved, applied>>
    /\ ProcFrame

\* A wrong callback: it appends the record of a SET or HSET it applies.
CallbackFile_m(file, v) ==
    IF Durable(CommandOf(v)) THEN file \o Marshal(v) ELSE file

\* The AOF file after the replay callback ran for v: the callback looks
\* up the handler and calls it, and never calls aof.Write.
CallbackFile(file, v) == file

\* What main has to write to a client after the replay callback called a
\* handler that returned res: the callback drops res.
CallbackReply(old, res) == old

\* The rest of the handler the callback called: the map access, the
\* unlock, the return; the callback drops the result.
ProcCallbackRun ==
    /\ mpc = "cbHeld"
    /\ \E h \in {CallHandler(CommandOf(value), ArgsOf(value),
                              [SETs |-> SETs, HSETs |-> HSETs])} :
          /\ SETs' = h.st.SETs
          /\ HSETs' = h.st.HSETs
          /\ reply' = CallbackReply(reply, h.res)
    /\ aofFile' = CallbackFile(aofFile, value)
    /\ mu' = Unlocked(LockOf(CommandOf(value), ArgsOf(value))[1], "main")
    /\ mpc' = AfterCallback
    /\ UNCHANGED <<value, wfail>>
    /\ UNCHANGED <<fpc, rr, rerr, foff, nserved, applied>>
    /\ ProcFrame

\* Aof.Read returns: the deferred aof.mu.Unlock().  main drops the result.
ProcReadUnlock ==
    /\ mpc = "readUnlock"
    /\ mu' = Unlocked("aof", "main")
    /\ mpc' = "listen"
    /\ UNCHANGED <<SETs, HSETs, aofFile, value, reply, wfail>>
    /\ UNCHANGED <<fpc, rr, rerr, foff, nserved, applied>>
    /\ ProcFrame

\* l, err := net.Listen("tcp", ":6379"): main returns on an error.
ProcListen ==
    /\ mpc = "listen"
    /\ \E ok \in BOOLEAN : mpc' = IF ok THEN "accept" ELSE "closing"
    /\ UNCHANGED <<SETs, HSETs, aofFile, value, reply, wfail, mu>>
    /\ UNCHANGED <<fpc, rr, rerr, foff, nserved, applied>>
    /\ ProcFrame

\* conn, err := l.Accept(): main returns on an error.
ProcAccept ==
    /\ mpc = "accept"
    /\ \E ok \in BOOLEAN : mpc' = IF ok THEN "serve" ELSE "closing"
    /\ UNCHANGED <<SETs, HSETs, aofFile, value, reply, wfail, mu>>
    /\ UNCHANGED <<fpc, rr, rerr, foff, nserved, applied>>
    /\ ProcFrame

\* The top of the loop: resp.Read() gives the request the client sent;
\* then the lookup, with the error response for an unknown command.
ProcRead(q) ==
    /\ mpc = "serve"
    /\ nserved < MaxServe
    /\ nserved' = nserved + 1
    /\ \E p \in {Read(NewResp(Marshal(q)))} :
          /\ p.err = "nil"
          /\ value' = p.val
          /\ IF CommandOf(p.val) \notin Handlers
             THEN /\ reply' = <<ErrorValue(ErrUnknown(CommandOf(p.val)))>>
                  /\ mpc' = "serve"
             ELSE /\ mpc' = IF Durable(CommandOf(p.val)) THEN "aofLock" ELSE "handler"
                  /\ UNCHANGED reply
    /\ UNCHANGED <<SETs, HSETs, aofFile, wfail, mu>>
    /\ UNCHANGED <<fpc, rr, rerr, foff, applied>>
    /\ ProcFrame

\* The client closes the connection: resp.Read() gives io.EOF and main
\* returns.
ProcClientClose ==
    /\ mpc = "serve"
    /\ mpc' = "closing"
    /\ UNCHANGED <<SETs, HSETs, aofFile, value, reply, wfail, mu>>
    /\ UNCHANGED <<fpc, rr, rerr, foff, nserved, applied>>
    /\ ProcFrame

\* Aof.Write: aof.mu.Lock().
ProcAofLock ==
    /\ mpc = "aofLock"
    /\ CanLock("aof")
    /\ mu' = Locked("aof", "main", "w")
    /\ mpc' = "aofWrite"
    /\ UNCHANGED <<SETs, HSETs, aofFile, value, reply, wfail>>
    /\ UNCHANGED <<fpc, rr, rerr, foff, nserved, applied>>
    /\ ProcFrame

\* os.File.Write of b on a file opened without O_APPEND: the bytes go to
\* the file's offset, over what is there.
WriteAt(file, off, b) ==
    SubSeq(file, 1, off) \o b \o SubSeq(file, off + Len(b) + 1, Len(file))

\* Aof.Write: aof.file.Write(value.Marshal()), which writes all the bytes
\* or fails after part of them, and the deferred unlock.
ProcAofWrite ==
    /\ mpc = "aofWrite"
    /\ \E writeOk \in BOOLEAN :
       \E part \in IF writeOk THEN {0} ELSE FailedWriteLens :
       \E b \in {IF writeOk THEN Marshal(value)
                 ELSE SubSeq(Marshal(value), 1, Min(part, Len(Marshal(value)) - 1))} :
          /\ aofFile' = WriteAt(aofFile, foff, b)
          /\ foff' = foff + Len(b)
          /\ wfail' = (wfail \/ ~writeOk)
    /\ mu' = Unlocked("aof", "main")
    /\ mpc' = "handler"
    /\ UNCHANGED <<SETs, HSETs, value, reply>>
    /\ UNCHANGED <<fpc, rr, rerr, nserved, applied>>
    /\ ProcFrame

\* result := handler(args) up to the handler's lock: a handler that takes
\* no mutex returns its result, which main writes.
ProcHandler ==
    /\ mpc = "handler"
    /\ \E l \in {LockOf(CommandOf(value), ArgsOf(value))} :
          IF l[1] = "none"
          THEN /\ reply' = <<CallHandler(CommandOf(value), ArgsOf(value),
                                         [SETs |-> SETs, HSETs |-> HSETs]).res>>
               /\ mpc' = "serve"
               /\ UNCHANGED mu
          ELSE /\ CanTake(l)
               /\ mu' = Locked(l[1], "main", l[2])
               /\ mpc' = "hHeld"
               /\ UNCHANGED reply
    /\ UNCHANGED <<SETs, HSETs, aofFile, value, wfail>>
    /\ UNCHANGED <<fpc, rr, rerr, foff, nserved, applied>>
    /\ ProcFrame

\* The rest of the handler: the map access, the unlock, the return; then
\* writer.Write(result).
ProcHandlerRun ==
    /\ mpc = "hHeld"
    /\ \E h \in {CallHandler(CommandOf(value), ArgsOf(value),
                              [SETs |-> SETs, HSETs |-> HSETs])} :
          /\ SETs' = h.st.SETs
          /\ HSETs' = h.st.HSETs
          /\ reply' = <<h.res>>
    /\ mu' = Unlocked(LockOf(CommandOf(value), ArgsOf(value))[1], "main")
    /\ mpc' = "serve"
    /\ UNCHANGED <<aofFile, value, wfail>>
    /\ UNCHANGED <<fpc, rr, rerr, foff, nserved, applied>>
    /\ ProcFrame

\* main returns: the deferred aof.Close() takes aof.mu.
ProcCloseLock ==
    /\ mpc = "closing"
    /\ CanLock("aof")
    /\ mu' = Locked("aof", "main", "w")
    /\ mpc' = "closeHeld"
    /\ UNCHANGED <<SETs, HSETs, aofFile, value, reply, wfail>>
    /\ UNCHANGED <<fpc, rr, rerr, foff, nserved, applied>>
    /\ ProcFrame

\* Aof.Close: the file is closed, the mutex released, and the process ends
\* with main's return.
ProcClose ==
    /\ mpc = "closeHeld"
    /\ mu' = Unlocked("aof", "main")
    /\ mpc' = "exited"
    /\ fpc' = "off"
    /\ UNCHANGED <<SETs, HSETs, aofFile, value, reply, wfail>>
    /\ UNCHANGED <<rr, rerr, foff, nserved, applied>>
    /\ ProcFrame

\* The goroutine of NewAof: aof.mu.Lock().
FlushLock ==
    /\ fpc = "lock"
    /\ mpc \notin {"exited", "crashed"}
    /\ CanLock("aof")
    /\ mu' = Locked("aof", "flush", "w")
    /\ fpc' = "sync"
    /\ UNCHANGED <<SETs, HSETs, aofFile, value, reply, wfail>>
    /\ UNCHANGED <<mpc, rr, rerr, foff, nserved, applied>>
    /\ ProcFrame

\* A wrong goroutine: it returns when Sync gives an error.
AfterSync_m(failed) == IF failed THEN "off" ELSE "lock"

\* Where the goroutine of NewAof is after Sync, with an error (which it
\* prints) or without: at the Lock of the next pass of its loop.
AfterSync(failed) == "lock"

\* The goroutine of NewAof: aof.file.Sync(), which may fail, then
\* aof.mu.Unlock() and the sleep of a second.
FlushSync ==
    /\ fpc = "sync"
    /\ mpc \notin {"exited", "crashed"}
    /\ \E failed \in BOOLEAN :
          /\ syncErr' = failed
          /\ fpc' = AfterSync(failed)
    /\ mu' = Unlocked("aof", "flush")
    /\ UNCHANGED <<SETs, HSETs, aofFile, value, reply, wfail>>
    /\ UNCHANGED <<mpc, rr, rerr, foff, nserved, applied>>
    /\ OtherFrame

ProcNext ==
    \/ ProcNewAof
    \/ ProcReadLock
    \/ ProcReplayRead
    \/ ProcCallback
    \/ ProcCallbackRun
    \/ ProcReadUnlock
    \/ ProcListen
    \/ ProcAccept
    \/ \E q \in ProcRequests : ProcRead(q)
    \/ ProcClientClose
    \/ ProcAofLock
    \/ ProcAofWrite
    \/ ProcHandler
    \/ ProcHandlerRun
    \/ ProcCloseLock
    \/ ProcClose
    \/ FlushLock
    \/ FlushSync

SpecProc == ProcInit /\ [][ProcNext]_vars

\* main has a listener: it waits for a connection or works on one.
Listening == mpc \in {"accept", "serve", "aofLock", "aofWrite", "handler", "hHeld"}

\* main is inside Aof.Read.
Replaying == mpc \in {"replay", "callback", "cbHeld", "readUnlock"}

\* C15: main has a listener, and has read a request, only after Aof.Read
\* has returned; when Aof.Read returned without error its parser was at the
\* end of the file; while main is inside Aof.Read no request has been read.
C15_ReplayBeforeAccept ==
    /\ (Listening \/ nserved > 0) => rerr # "none"
    /\ (Listening /\ rerr = "nil") => (rr.eof /\ rr.pos = Len(rr.data))
    /\ Replaying => nserved = 0

\* C15's case: two records were replayed, and then a GET on the connection
\* was answered with the value the replay put in the map.
C15_Witness ==
    /\ mpc = "serve"
    /\ nserved = 1
    /\ rerr = "nil"
    /\ Len(applied) = 2
    /\ rr.data = RecSet \o RecHset
    /\ value = Req(GET, <<K1>>)
    /\ reply = <<BulkValue(K2)>>

\* C16: when Aof.Read has returned an error main has no listener and reads
\* no request.
C16_ReplayErrorAbortsStartup ==
    rerr \notin {"none", "nil"} => (~Listening /\ nserved = 0)

\* C17: Aof.Read on a file of whole records returns no error; on a file
\* whose last record is cut it returns an error and has given the callback
\* the whole records only.
C17_CutRecordIsAnError ==
    rerr # "none" =>
        /\ \A w \in WholeLogs :
              rr.data = MarshalAll(w) => rerr = "nil"
        /\ \A c \in CutLogs :
              rr.data = CutBytes(c) => (rerr # "nil" /\ applied = c.whole)

\* The tasks of the process.
ProcTasks == {"main", "flush"}

\* C20: no task of the process holds two of the three mutexes.
C20_NoNestedLocks ==
    \A t \in ProcTasks : Cardinality(Held(t)) <= 1

---------------------------------------------------------------------------
(* The process under fair scheduling.  The Go scheduler runs every         *)
(* goroutine that can run; a sync.Mutex hands itself to a waiter that has  *)
(* waited long (starvation mode), and the goroutine of NewAof sleeps a     *)
(* second between two locks, so a task that waits in Lock gets the mutex   *)
(* although another takes and releases it again and again.  The client     *)
(* and the network are not held to anything.                               *)

ProcFairness ==
    /\ WF_vars(ProcNewAof)
    /\ SF_vars(ProcReadLock)
    /\ WF_vars(ProcReplayRead)
    /\ SF_vars(ProcCallback)
    /\ WF_vars(ProcCallbackRun)
    /\ WF_vars(ProcReadUnlock)
    /\ SF_vars(ProcAofLock)
    /\ WF_vars(ProcAofWrite)
    /\ SF_vars(ProcHandler)
    /\ WF_vars(ProcHandlerRun)
    /\ SF_vars(ProcCloseLock)
    /\ WF_vars(ProcClose)
    /\ SF_vars(FlushLock)
    /\ WF_vars(FlushSync)

SpecProcFair == SpecProc /\ ProcFairness

\* The process runs: main has not returned and nothing has panicked.
Alive == mpc \notin {"off", "exited", "crashed"}

\* The mutex main is about to take at its place, and how; none elsewhere.
MainWants ==
    IF mpc \in {"readLock", "aofLock", "closing"} THEN <<"aof", "w">>
    ELSE IF mpc \in {"callback", "handler"} /\ Len(value.array) > 0
              /\ CommandOf(value) \in Handlers
    THEN LockOf(CommandOf(value), ArgsOf(value))
    ELSE <<"none", "none">>

\* main is in Lock or RLock and the mutex is not free for it.
MainBlocked == MainWants[1] # "none" /\ ~CanTake(MainWants)

\* The goroutine of NewAof is in Lock and the mutex is held.
FlushBlocked == fpc = "lock" /\ ~CanLock("aof")

\* C21: in no state of the running process are main and the goroutine of
\* NewAof both blocked in a lock call, and under fair scheduling main, when
\* it is about to take a mutex, gets past the lock call, and so does the
\* goroutine of NewAof unless the process ends.
C21_NoDeadlockLocksGranted ==
    /\ [](Alive => ~(MainBlocked /\ FlushBlocked))
    /\ (MainWants[1] # "none") ~> (MainWants[1] = "none" \/ MainWants[1] \in Held("main"))
    /\ (Alive /\ fpc = "lock") ~> (fpc = "sync" \/ ~Alive)

\* C21's case: main waits in the Lock of Aof.Write while the goroutine of
\* NewAof holds aof.mu, after a replay that held two mutexes.
C21_Witness ==
    /\ mpc = "aofLock"
    /\ MainBlocked
    /\ fpc = "sync"
    /\ Len(applied) > 0

\* The operations on the AOF file that are inside their critical section:
\* between the Lock of aof.mu and its Unlock.
InCritical ==
    (IF Replaying THEN {"replay"} ELSE {})
    \cup (IF mpc = "aofWrite" THEN {"append"} ELSE {})
    \cup (IF mpc = "closeHeld" THEN {"close"} ELSE {})
    \cup (IF fpc = "sync" THEN {"flush"} ELSE {})

\* C22: at most one of append, flush, replay and close is inside its
\* critical section, and it is the one holder of aof.mu.
C22_LogOperationsExclusive ==
    /\ Cardinality(InCritical) <= 1
    /\ Cardinality(mu["aof"]) = Cardinality(InCritical)

\* C22's case: main is inside Aof.Write for a request and the goroutine of
\* NewAof waits in its Lock.
C22_Witness ==
    /\ InCritical = {"append"}
    /\ FlushBlocked
    /\ nserved = 1
    /\ value = Req(HSET, <<K1, K1, K2>>)

\* The record of a request is in the file where the last write put it.
RecordWritten(v) ==
    /\ foff >= Len(Marshal(v))
    /\ SubSeq(aofFile, foff - Len(Marshal(v)) + 1, foff) = Marshal(v)

\* A request whose command is SET or HSET in any case of letters.
NamesMutation(v) == IsRequest(v) /\ UpperNameOf(v) \in {SET, HSET}

\* C23: while no write has failed, main enters the handler of a request
\* named SET or HSET, whatever its number of arguments, with the request's
\* record written to the file; every step of a connection's handler that
\* changes a map finds the record in the file; and the handler of a SET or
\* HSET with a wrong number of arguments changes no map.
C23_AppendBeforeHandler ==
    [][/\ (mpc = "handler" /\ NamesMutation(value) /\ ~wfail) => RecordWritten(value)
       /\ (nserved > 0 /\ ~wfail /\ (SETs' # SETs \/ HSETs' # HSETs)) =>
             /\ mpc = "hHeld"
             /\ NamesMutation(value)
             /\ RecordWritten(value)
       /\ (mpc = "handler" /\ mpc' # mpc /\ NamesMutation(value) /\ WrongArity(value)) =>
             /\ mpc' = "serve"
             /\ IsArityError(reply'[1])
             /\ SETs' = SETs
             /\ HSETs' = HSETs]_vars

\* C23's case: a SET without a value was served on an empty store: its
\* record is the file, the answer is the error and the maps are empty.
C23_Witness ==
    /\ mpc = "serve"
    /\ nserved = 1
    /\ ~wfail
    /\ value = Req(SET, <<K1>>)
    /\ aofFile = Marshal(Req(SET, <<K1>>))
    /\ IsArityError(reply[1])
    /\ SETs = EmptyMap
    /\ HSETs = EmptyMap

C25_AppendOnly ==
    [][(mpc = "aofWrite" /\ mpc' # mpc) =>
          /\ Len(aofFile') >= Len(aofFile)
          /\ SubSeq(aofFile', 1, Len(aofFile)) = aofFile]_vars

\* C26: the i-th Value main parses on a connection is the i-th request the
\* client sent, parsed from its first byte, and what main has taken from
\* the connection when it is about to read is the bytes of the requests it
\* has parsed.
C26_ParseConsumesOneRequest ==
    lpc # "off" =>
        /\ \A i \in 1..Len(handled) : handled[i].id = i
        /\ (lpc = "read" /\ Len(handled) < Len(starts)) =>
              taken = starts[Len(handled) + 1]

\* The parse of the input gave a Value and no error.
Parsed == csrc = "parser" /\ cpc \in {"value", "wire", "done"}

\* The parse of the input gave an error.
Rejected == csrc = "parser" /\ cpc = "rejected"

\* C27: the parse of an empty input gives io.EOF; the parse of an input
\* that ends inside a value gives an error that is not io.EOF, and no
\* Value.
C27_CutInputIsNotCleanEnd ==
    (csrc = "parser" /\ cpc # "bytes") =>
        /\ cin = <<>> => (Rejected /\ cback.err = "EOF")
        /\ cin \in CutInputs => (Rejected /\ cback.err \notin {"nil", "EOF"})

\* The places of a byte string where a CR is followed by LF.
CRLFs(b) == {i \in 1..(Len(b) - 1) : b[i] = CR /\ b[i + 1] = LF}

\* The line at the start of a byte string that holds a CRLF: the bytes
\* before the first CR that is followed by LF.
LineBeforeCRLF(b) == SubSeq(b, 1, (CHOOSE i \in CRLFs(b) : \A j \in CRLFs(b) : i <= j) - 1)

\* C28: when the bytes after the tag of an array or a bulk string, up to
\* the first CR that is followed by LF, are not a signed decimal number,
\* the parse fails with the error of the number conversion.
C28_LengthLine ==
    (/\ csrc = "parser"
     /\ cpc # "bytes"
     /\ Len(cin) > 0
     /\ cin[1] \in {"*", "$"}
     /\ CRLFs(Tail(cin)) # {}
     /\ ParseInt(LineBeforeCRLF(Tail(cin))).err # "nil") =>
        (Rejected /\ cback.err = "syntax")

\* A step of main's read on bytes whose first is no tag the parser knows.
IsUnknownTagRead ==
    /\ lpc = "read"
    /\ Len(sock) > 0
    /\ sock[1] \notin {"*", "$"}
    /\ taken' # taken

\* C29: when the first byte main reads is no known tag, the parser gives a
\* Value without error, the Value serializes as Null, no handler runs for
\* it and main is at the next read.
C29_UnknownTagGivesNull ==
    [][IsUnknownTagRead =>
          /\ lpc' = "read"
          /\ Len(handled') = Len(handled) + 1
          /\ ~handled'[Len(handled')].cmd
          /\ Marshal(cur'.val) = Marshal(NullValue)]_vars

\* The parse of an input that starts with the array tag gave a Value.
ParsedArray == Parsed /\ Len(cin) > 0 /\ cin[1] = "*"

\* The element count an array input declares.
DeclaredCount == ParseInt(LineBeforeCRLF(Tail(cin))).x

\* C30: a parsed Array has as many elements as its header declares, and
\* that is not negative; the bytes Marshal gives for an array, flat or
\* nested, within the buffer or longer, parse to that array, element by
\* element in order; an array with an element that does not parse is
\* rejected with the element's error.
C30_ArrayParse ==
    /\ (csrc = "parser" /\ cpc # "bytes") =>
          /\ \A v \in FlatArrays \cup NestedArrays \cup {LongArray} :
                cin = Marshal(v) => (Parsed /\ cval = v)
          /\ cin \in BadElementInputs => (Rejected /\ cback.err = "syntax")
    /\ ParsedArray =>
          /\ cval.typ = "array"
          /\ DeclaredCount >= 0
          /\ Len(cval.array) = DeclaredCount

\* Aof.Read has been entered.
ReplayEntered == mpc \notin {"start", "readLock"}

\* C31: the replay parses from the first byte of the file; on a file that
\* holds the records of a sequence of requests, the Values handed to the
\* callback so far are the first of these requests, in order and once
\* each, and when Aof.Read has returned they are all of them.
C31_ReplayPassesAppendedRequests ==
    ReplayEntered =>
        /\ rr.data = aofFile \/ nserved > 0
        /\ \A w \in WholeLogs :
              rr.data = MarshalAll(w) =>
                 /\ applied = SubSeq(w, 1, Len(applied))
                 /\ rerr # "none" => applied = w

\* C32: under fair scheduling, while the process runs the goroutine of
\* NewAof calls Sync again and again: either the process ends or Sync is
\* called infinitely often, with or without a write of main in between;
\* and after a Sync that failed the goroutine comes to the next Sync
\* unless the process ends.
C32_FlushForever ==
    /\ (<>[](~Alive)) \/ ([]<><<FlushSync>>_vars)
    /\ (syncErr /\ fpc = "lock") ~> (fpc = "sync" \/ ~Alive)
    /\ [](Alive /\ mpc # "start" => fpc \in {"lock", "sync"})

\* C32's case: the goroutine of NewAof is at its Sync after a Sync that
\* failed, while main waits for a request and has appended nothing.
C32_Witness ==
    /\ mpc = "serve"
    /\ nserved = 0
    /\ rr.data = aofFile
    /\ syncErr
    /\ fpc = "sync"

\* C33: from the Lock of Aof.Read to its return no step changes the AOF
\* file or gives main a response to write; until main has read a request
\* the file is the one the replay started on and there is no response,
\* whatever number of SET and HSET records the callback applied.
C33_ReplayLeavesLogAndSendsNothing ==
    /\ [][(mpc = "readLock" \/ Replaying) =>
             (aofFile' = aofFile /\ reply' = reply)]_vars
    /\ []((ReplayEntered /\ nserved = 0) => (aofFile = rr.data /\ reply = <<>>))

\* C33's case: Aof.Read has returned after two SET records were applied,
\* the second of them is in the map, and the file is as it was.
C33_Witness ==
    /\ mpc = "listen"
    /\ rerr = "nil"
    /\ applied = <<Req(SET, <<K1, K1>>), Req(SET, <<K1, K2>>)>>
    /\ K1 \in DOMAIN SETs /\ SETs[K1] = K2
    /\ aofFile = MarshalAll(applied)
    /\ reply = <<>>

\* A step of main's read that parsed a Value which is no array, or an
\* array without elements.
IsSkippedRead ==
    /\ lpc = "read"
    /\ Len(handled') = Len(handled) + 1
    /\ cur'.val.typ # "array" \/ Len(cur'.val.array) = 0

\* The numbers of the requests main parsed and skipped.
SkippedIds == {handled[i].id : i \in {j \in 1..Len(handled) : ~handled[j].cmd}}

\* C34: when main has parsed a Value that is no array, or an array without
\* elements, it is at the read of the next request, the maps and the AOF
\* file are as before and nothing was written to the client; the handler
\* step runs only for an array with elements, and no response on the
\* connection answers a skipped request.
C34_NotACommandIsSkipped ==
    /\ [][IsSkippedRead =>
             /\ lpc' = "read"
             /\ SETs' = SETs /\ HSETs' = HSETs /\ aofFile' = aofFile
             /\ out' = out /\ reply' = reply]_vars
    /\ [](lpc \in {"handle", "write"} => (cur.val.typ = "array" /\ Len(cur.val.array) > 0))
    /\ [](\A i \in 1..Len(out) : out[i].id \notin SkippedIds \/ out[i].id = 0)

\* C34's case: main skipped a bulk string and an empty array, and then
\* answered the SET that came after them.
C34_Witness ==
    /\ Len(handled) = 3
    /\ ~handled[1].cmd /\ ~handled[2].cmd /\ handled[3].cmd
    /\ \E i, j \in 1..2 : /\ i # j
                           /\ handled[i].id = i
                           /\ handled[j].id = j
    /\ cur.val = Req(SET, <<K1, K2>>)
    /\ Len(out) = 1
    /\ out[1].id = 3
    /\ aofFile = Marshal(cur.val)
    /\ lpc = "read"

=============================================================================
